---- MODULE Spec2Model ----
(***************************************************************************)
(* State-machine model of the Solana instruction-building HTTP service     *)
(* (src/src/main.rs and src/src/utils/*.rs).                               *)
(*                                                                         *)
(* Representation of data:                                                 *)
(*   - a byte string is a sequence over 0..255;                            *)
(*   - a base58 text is a sequence of character codes, code c in 0..57     *)
(*     being the c-th character of the Bitcoin alphabet                    *)
(*     "123456789ABC...xyz" and code 58 a character outside the alphabet   *)
(*     (such as '0');                                                      *)
(*   - a base64 text is a sequence of character codes, 0..63 the standard  *)
(*     alphabet, 64 the padding '=', 65 a character outside the alphabet;  *)
(*   - a message is the sequence of its UTF-8 bytes;                       *)
(*   - a u64 is the sequence of its 8 little-endian bytes (to_le_bytes);   *)
(*   - a request body is a JSON object, the function from its keys to      *)
(*     their values, or no JSON at all; a response is a status, a content  *)
(*     type and a body, the body of a JSON response being a record.        *)
(***************************************************************************)
EXTENDS Integers, Sequences, FiniteSets, TLC

\* ------------------------------------------------------------------ bytes
\* The operations on byte strings and texts are functions, so that each is
\* applied to a value; carries are propagated four digits at a time and sums
\* are split in halves, which keeps the recursion shallow on 64-byte strings.

Digits == Seq(Nat)

Zeros(n) == [i \in 1..n |-> 0]

Reverse[s \in Digits] == [i \in 1..Len(s) |-> s[Len(s) + 1 - i]]

\* number of leading elements of s equal to v
LeadingCount[s \in Digits, v \in Nat] ==
    IF \A i \in 1..Len(s) : s[i] = v THEN Len(s)
    ELSE (CHOOSE i \in 1..Len(s) : s[i] # v /\ \A j \in 1..(i - 1) : s[j] = v) - 1

\* s without its trailing zeros
TrimZeros[s \in Digits] ==
    IF \A i \in 1..Len(s) : s[i] = 0 THEN <<>>
    ELSE SubSeq(s, 1, CHOOSE i \in 1..Len(s) :
                          s[i] # 0 /\ \A j \in (i + 1)..Len(s) : s[j] = 0)

\* the little-endian digits of carry in the given base
CarryDigits[carry \in Nat, base \in Nat] ==
    IF carry = 0 THEN <<>>
    ELSE <<carry % base>> \o CarryDigits[carry \div base, base]

MulAddFrom[num \in Digits, mul \in Nat, carry \in Nat, base \in Nat, i \in Nat] ==
    IF i > Len(num) THEN CarryDigits[carry, base]
    ELSE <<(num[i] * mul + carry) % base>>
         \o MulAddFrom[num, mul, (num[i] * mul + carry) \div base, base, i + 1]

\* little-endian number num (digits in base), times mul, plus carry
MulAdd[num \in Digits, mul \in Nat, carry \in Nat, base \in Nat] ==
    MulAddFrom[num, mul, carry, base, 1]

FixedMulAddFrom[num \in Digits, mul \in Nat, carry \in Nat, base \in Nat, i \in Nat] ==
    IF i > Len(num) THEN <<>>
    ELSE LET v1 == num[i] * mul + carry
             v2 == num[i + 1] * mul + v1 \div base
             v3 == num[i + 2] * mul + v2 \div base
             v4 == num[i + 3] * mul + v3 \div base
         IN  << v1 % base, v2 % base, v3 % base, v4 % base >>
             \o FixedMulAddFrom[num, mul, v4 \div base, base, i + 4]

\* num * mul + carry on a little-endian number of fixed width, a multiple of
\* four digits wide enough to hold the result
FixedMulAdd[num \in Digits, mul \in Nat, carry \in Nat, base \in Nat] ==
    FixedMulAddFrom[num, mul, carry, base, 1]

\* digits taken three at a time: the same number, most significant first, in
\* base from^3, on a multiple of four chunks
Chunk3[digits \in Digits, from \in Nat] ==
    LET count == 4 * ((Len(digits) + 11) \div 12)
    IN  [j \in 1..count |->
            LET at(k) == IF k > 3 * count - Len(digits)
                         THEN digits[k - (3 * count - Len(digits))] ELSE 0
            IN  at(3 * j - 2) * from * from + at(3 * j - 1) * from + at(3 * j)]

\* acc holds the value of the chunks before the j-th; four chunks are taken
\* in at a time
RadixFrom[chunks \in Digits, from \in Nat, to \in Nat, acc \in Digits, j \in Nat] ==
    IF j > Len(chunks) THEN acc
    ELSE RadixFrom[chunks, from, to,
            FixedMulAdd[
              FixedMulAdd[
                FixedMulAdd[
                  FixedMulAdd[acc, from, chunks[j], to],
                  from, chunks[j + 1], to],
                from, chunks[j + 2], to],
              from, chunks[j + 3], to],
            j + 4]

\* digits (most significant first, each below from) as a little-endian number
\* in base to without high zeros; width is a number of digits that holds it
Radix[digits \in Digits, from \in Nat, to \in Nat, width \in Nat] ==
    TrimZeros[RadixFrom[Chunk3[digits, from], from * from * from, to,
                        Zeros(4 * ((width + 3) \div 4)), 1]]

\* ----------------------------------------------------------------- base58

BS58_INVALID == 58

Bs58Ok(bytes) == [ok |-> TRUE, bytes |-> bytes]

Bs58Err == [ok |-> FALSE]

\* bs58::decode(text).into_vec()
Bs58Decode[text \in Digits] ==
    IF \E i \in 1..Len(text) : text[i] >= BS58_INVALID THEN Bs58Err
    ELSE Bs58Ok(Zeros(LeadingCount[text, 0])
                \o Reverse[Radix[text, 58, 256, Len(text)]])

\* bs58::encode(bytes).into_string()
Bs58Encode[bytes \in Digits] ==
    Zeros(LeadingCount[bytes, 0]) \o Reverse[Radix[bytes, 256, 58, 2 * Len(bytes)]]

\* ----------------------------------------------------------------- base64

B64_PAD == 64

B64_INVALID == 65

\* base64::encode(bytes)
Base64Encode[bytes \in Digits] ==
    LET n == Len(bytes)
        byte(i) == IF i <= n THEN bytes[i] ELSE 0
    IN  [k \in 1..(4 * ((n + 2) \div 3)) |->
            LET g == (k - 1) \div 4
                a == byte(3 * g + 1)
                b == byte(3 * g + 2)
                c == byte(3 * g + 3)
            IN  CASE (k - 1) % 4 = 0 -> a \div 4
                  [] (k - 1) % 4 = 1 -> (a % 4) * 16 + b \div 16
                  [] (k - 1) % 4 = 2 ->
                        IF 3 * g + 2 > n THEN B64_PAD ELSE (b % 16) * 4 + c \div 64
                  [] OTHER -> IF 3 * g + 3 > n THEN B64_PAD ELSE c % 64]

B64Ok(bytes) == [ok |-> TRUE, bytes |-> bytes]

B64Err == [ok |-> FALSE]

\* base64::decode(text), standard alphabet with canonical padding
Base64Decode[text \in Digits] ==
    LET n == Len(text)
        pads == IF n > 0 /\ text[n] = B64_PAD
                THEN (IF text[n - 1] = B64_PAD THEN 2 ELSE 1)
                ELSE 0
    IN  IF n % 4 # 0 THEN B64Err
        ELSE IF \E i \in 1..(n - pads) : text[i] >= B64_PAD THEN B64Err
        ELSE IF pads = 2 /\ text[n - 2] % 16 # 0 THEN B64Err
        ELSE IF pads = 1 /\ text[n - 1] % 4 # 0 THEN B64Err
        ELSE B64Ok([m \in 1..(3 * (n \div 4) - pads) |->
                LET g == (m - 1) \div 3
                IN  CASE (m - 1) % 3 = 0 ->
                            text[4 * g + 1] * 4 + text[4 * g + 2] \div 16
                      [] (m - 1) % 3 = 1 ->
                            (text[4 * g + 2] % 16) * 16 + text[4 * g + 3] \div 4
                      [] OTHER -> (text[4 * g + 3] % 4) * 64 + text[4 * g + 4]])

\* -------------------------------------------------------------------- u64

U64_BYTES == 8

\* the little-endian bytes of the number n, padded to 8 bytes
U64FromNat(n) == CarryDigits[n, 256] \o Zeros(U64_BYTES - Len(CarryDigits[n, 256]))

\* sum of two little-endian byte strings and a carry
WideAdd[a \in Digits, b \in Digits, carry \in Nat] ==
    IF a = <<>> /\ b = <<>> THEN CarryDigits[carry, 256]
    ELSE LET x == IF a = <<>> THEN 0 ELSE Head(a)
             y == IF b = <<>> THEN 0 ELSE Head(b)
         IN  <<(x + y + carry) % 256>>
             \o WideAdd[IF a = <<>> THEN a ELSE Tail(a),
                        IF b = <<>> THEN b ELSE Tail(b), (x + y + carry) \div 256]

\* the full product of two little-endian byte strings, no truncation
WideMul[a \in Digits, b \in Digits] ==
    IF b = <<>> THEN <<>>
    ELSE WideAdd[MulAdd[a, Head(b), 0, 256], <<0>> \o WideMul[a, Tail(b)], 0]

\* whether a wide little-endian value is representable in 8 bytes
FitsU64(wide) == \A i \in 1..Len(wide) : i > U64_BYTES => wide[i] = 0

\* a wide value that fits, as a u64
ToU64(wide) == [i \in 1..U64_BYTES |-> IF i <= Len(wide) THEN wide[i] ELSE 0]

U64GreaterFrom[a \in Digits, b \in Digits, i \in Nat] ==
    IF i = 0 THEN FALSE
    ELSE IF a[i] # b[i] THEN a[i] > b[i]
    ELSE U64GreaterFrom[a, b, i - 1]

\* a > b on u64 values
U64Greater(a, b) == U64GreaterFrom[a, b, U64_BYTES]

U64_ZERO == Zeros(U64_BYTES)

U64_MAX == [i \in 1..U64_BYTES |-> 255]

\* x + 1 for x < u64::MAX
U64Succ(x) == ToU64(MulAdd[x, 1, 1, 256])

\* ------------------------------------------------- SDK: keys and programs

PUBKEY_BYTES == 32

SIGNATURE_BYTES == 64

KEYPAIR_LENGTH == 64

\* Pubkey::try_from(bytes): the slice must hold exactly 32 bytes
PubkeyTryFrom(bytes) == Len(bytes) = PUBKEY_BYTES

\* Signature::try_from(bytes): the slice must hold exactly 64 bytes
SignatureTryFrom(bytes) == Len(bytes) = SIGNATURE_BYTES

\* "TokenkegQfeZyiNwAJbNbGKPFXCWuBvf9Ss623VQ5DA"
TOKEN_PROGRAM_TEXT ==
    << 26, 46, 43, 37, 45, 43, 37, 39, 23, 38, 37, 32, 56, 41, 21, 54, 9, 17,
       34, 21, 34, 15, 18, 22, 14, 30, 11, 29, 52, 10, 53, 38, 8, 25, 50, 5, 1,
       2, 28, 23, 4, 12, 9 >>

\* "SysvarRent111111111111111111111111111111111"
RENT_SYSVAR_TEXT ==
    << 25, 56, 50, 53, 33, 49, 24, 37, 45, 51 >> \o Zeros(33)

\* "ATokenGPvbdGVxr1b2hvZbsiqW5xWH25efTNsLJA8knL"
ATA_PROGRAM_TEXT ==
    << 9, 26, 46, 43, 37, 45, 15, 22, 53, 34, 36, 15, 28, 55, 49, 0, 34, 1, 40,
       53, 32, 34, 50, 41, 48, 29, 4, 55, 29, 16, 1, 4, 37, 38, 26, 21, 50, 19,
       17, 9, 7, 43, 45, 19 >>

\* spl_token::id()
spl_token_id == Bs58Decode[TOKEN_PROGRAM_TEXT].bytes

\* rent::id()
rent_id == Bs58Decode[RENT_SYSVAR_TEXT].bytes

\* system_program::id(), "11111111111111111111111111111111"
system_program_id == Zeros(PUBKEY_BYTES)

\* spl_associated_token_account::id()
ata_program_id == Bs58Decode[ATA_PROGRAM_TEXT].bytes

\* Pubkey::to_string(): the base58 text of the key
PubkeyToString(key) == Bs58Encode[key]

HashSum[bytes \in Digits, lo \in Nat, hi \in Nat] ==
    IF lo > hi THEN 0
    ELSE IF lo = hi THEN ((7 * lo + 1) * (bytes[lo] + 1)) % 65521
    ELSE HashSum[bytes, lo, (lo + hi) \div 2]
         + HashSum[bytes, (lo + hi) \div 2 + 1, hi]

\* stand-in for the SDK's hash functions (SHA-256, SHA-512): a position
\* weighted checksum of the bytes, started from h
HashNat[bytes \in Digits, h \in Nat] == (h + HashSum[bytes, 1, Len(bytes)]) % 65521

Spread32[h \in Nat] == [i \in 1..32 |-> (h \div i + 13 * i) % 256]

\* a 32-byte digest spread from the checksum
Digest32[bytes \in Digits] == Spread32[HashNat[bytes, 7]]

\* get_associated_token_address(wallet, mint): the program derived address of
\* the seeds [wallet, token program, mint] under the associated token program
get_associated_token_address(wallet, mint) ==
    Digest32[wallet \o spl_token_id \o mint \o ata_program_id]

\* AccountMeta::new(pubkey, is_signer)
AccountMeta_new(pubkey, is_signer) ==
    [pubkey |-> pubkey, is_signer |-> is_signer, is_writable |-> TRUE]

\* AccountMeta::new_readonly(pubkey, is_signer)
AccountMeta_new_readonly(pubkey, is_signer) ==
    [pubkey |-> pubkey, is_signer |-> is_signer, is_writable |-> FALSE]

SdkOk(program_id, accounts, data) ==
    [ok |-> TRUE,
     ix |-> [program_id |-> program_id, accounts |-> accounts, data |-> data]]

SdkErr(e) == [ok |-> FALSE, err |-> e]

\* check_program_account holding the token program for the system program
check_program_account_system(program_id) == program_id = system_program_id

\* spl_token::check_program_account
check_program_account(program_id) == program_id = spl_token_id

\* spl_token::instruction::initialize_mint with freeze_authority = None
initialize_mint(token_program_id, mint, mint_authority, decimals) ==
    IF ~check_program_account(token_program_id) THEN SdkErr("IncorrectProgramId")
    ELSE SdkOk(token_program_id,
               << AccountMeta_new(mint, FALSE),
                  AccountMeta_new_readonly(rent_id, FALSE) >>,
               << 0, decimals >> \o mint_authority \o << 0 >>)

\* spl_token::instruction::mint_to with no multisig signers
mint_to(token_program_id, mint, account, owner, amount) ==
    IF ~check_program_account(token_program_id) THEN SdkErr("IncorrectProgramId")
    ELSE SdkOk(token_program_id,
               << AccountMeta_new(mint, FALSE),
                  AccountMeta_new(account, FALSE),
                  AccountMeta_new_readonly(owner, TRUE) >>,
               << 7 >> \o amount)

\* spl_token::instruction::transfer_checked with no multisig signers
transfer_checked(token_program_id, source, mint, destination, authority, amount, decimals) ==
    IF ~check_program_account(token_program_id) THEN SdkErr("IncorrectProgramId")
    ELSE SdkOk(token_program_id,
               << AccountMeta_new(source, FALSE),
                  AccountMeta_new_readonly(mint, FALSE),
                  AccountMeta_new(destination, FALSE),
                  AccountMeta_new_readonly(authority, TRUE) >>,
               << 12 >> \o amount \o << decimals >>)

\* system_instruction::transfer: bincode of SystemInstruction::Transfer
system_instruction_transfer(from_pubkey, to_pubkey, lamports) ==
    [program_id |-> system_program_id,
     accounts |-> << AccountMeta_new(from_pubkey, TRUE),
                     AccountMeta_new(to_pubkey, FALSE) >>,
     data |-> << 2, 0, 0, 0 >> \o lamports]

\* ------------------------------------------------ SDK: Ed25519 signatures
\* The SDK's Ed25519 is modelled by a Schnorr signature of the same structure
\* over the additive group of integers modulo GROUP_ORDER: a public key is
\* scalar * BASE_POINT, a signature is the pair (R, S) with S = r + k * scalar,
\* and verification checks S * BASE_POINT = R + k * A.

GROUP_ORDER == 13

BASE_POINT == 3

\* the 32-byte little-endian encoding of a group element or scalar
Encode32(v) == << v >> \o Zeros(PUBKEY_BYTES - 1)

\* whether 32 bytes are the canonical encoding of a group element or scalar
Canonical32[bytes \in Digits] ==
    /\ Len(bytes) = PUBKEY_BYTES
    /\ bytes[1] < GROUP_ORDER
    /\ \A i \in 2..PUBKEY_BYTES : bytes[i] = 0

\* the secret scalar expanded from the 32-byte secret key
ScalarOf(secret) == HashNat[secret, 11] % GROUP_ORDER

\* PublicKey::from(&secret)
PublicOf(secret) == Encode32((ScalarOf(secret) * BASE_POINT) % GROUP_ORDER)

\* the challenge k = H(R, A, message)
Challenge(r_bytes, a_bytes, message) ==
    HashNat[r_bytes \o a_bytes \o message, 19] % GROUP_ORDER

Keypairs == [secret : Digits, public : Digits]

\* Keypair::to_bytes(): secret key then public key
Keypair_to_bytes(keypair) == keypair.secret \o keypair.public

\* Keypair::from_bytes(bytes): 64 bytes whose second half is a valid public key
Keypair_from_bytes[bytes \in Digits] ==
    IF Len(bytes) # KEYPAIR_LENGTH THEN [ok |-> FALSE]
    ELSE IF ~Canonical32[SubSeq(bytes, PUBKEY_BYTES + 1, KEYPAIR_LENGTH)]
    THEN [ok |-> FALSE]
    ELSE [ok |-> TRUE,
          keypair |-> [secret |-> SubSeq(bytes, 1, PUBKEY_BYTES),
                       public |-> SubSeq(bytes, PUBKEY_BYTES + 1, KEYPAIR_LENGTH)]]

\* Keypair::sign_message(message): the 64 signature bytes R then S
Keypair_sign_message[keypair \in Keypairs, message \in Digits] ==
    LET a == ScalarOf(keypair.secret)
        r == HashNat[keypair.secret \o message, 17] % GROUP_ORDER
        r_bytes == Encode32((r * BASE_POINT) % GROUP_ORDER)
        k == Challenge(r_bytes, keypair.public, message)
    IN  r_bytes \o Encode32((r + k * a) % GROUP_ORDER)

\* Signature::verify(pubkey_bytes, message_bytes)
Signature_verify[signature \in Digits, pubkey_bytes \in Digits, message \in Digits] ==
    LET r_bytes == SubSeq(signature, 1, PUBKEY_BYTES)
        s_bytes == SubSeq(signature, PUBKEY_BYTES + 1, SIGNATURE_BYTES)
    IN  /\ Canonical32[pubkey_bytes]
        /\ Canonical32[r_bytes]
        /\ Canonical32[s_bytes]
        /\ (s_bytes[1] * BASE_POINT) % GROUP_ORDER
             = (r_bytes[1] + Challenge(r_bytes, pubkey_bytes, message)
                               * pubkey_bytes[1]) % GROUP_ORDER

\* --------------------------------------------------------- response types

\* SuccessResponse::new(data), as serialized by serde
SuccessResponse_new(data) == [success |-> TRUE, data |-> data]

\* ErrorResponse::new(error), as serialized by serde
ErrorResponse_new(error) == [success |-> FALSE, error |-> error]

\* A handler's outcome: the Result it returns and, in built, the results of the
\* SDK instruction constructors it called on the way.
Ok(response, built) == [ok |-> TRUE, value |-> response, built |-> built]

Err(err, built) == [ok |-> FALSE, value |-> err, built |-> built]

AccountMetas == Seq([pubkey : Digits, is_signer : BOOLEAN, is_writable : BOOLEAN])

\* accounts.iter().map(|account| AccountInfo { .. }).collect()
AccountInfos[accounts \in AccountMetas] ==
    [i \in 1..Len(accounts) |->
        [pubkey |-> Bs58Encode[accounts[i].pubkey],
         is_signer |-> accounts[i].is_signer,
         is_writable |-> accounts[i].is_writable]]

\* ------------------------------------------------------------ keypair

\* generate_keypair giving out the 32 secret bytes in place of the keypair's 64
generate_keypair_secret_only(secret) ==
    LET keypair == [secret |-> secret, public |-> PublicOf(secret)]
    IN  Ok(SuccessResponse_new([pubkey |-> Bs58Encode[keypair.public],
                                secret |-> Bs58Encode[keypair.secret]]), <<>>)

\* generate_keypair with Keypair::new() drawing the given secret key
generate_keypair(secret) ==
    LET keypair == [secret |-> secret, public |-> PublicOf(secret)]
        pubkey == Bs58Encode[keypair.public]
        secret_text == Bs58Encode[Keypair_to_bytes(keypair)]
    IN  Ok(SuccessResponse_new([pubkey |-> pubkey, secret |-> secret_text]), <<>>)

\* ------------------------------------------------------------ token.rs

\* validate_pubkey without Pubkey::try_from: any decodable text passes
token_validate_pubkey_any_length(key, field_name) ==
    LET decoded == Bs58Decode[key]
    IN  IF ~decoded.ok
        THEN [ok |-> FALSE,
              err |-> ErrorResponse_new("Invalid base58 encoding for " \o field_name)]
        ELSE [ok |-> TRUE, key |-> decoded.bytes]

token_validate_pubkey(key, field_name) ==
    LET decoded == Bs58Decode[key]
    IN  IF ~decoded.ok
        THEN [ok |-> FALSE,
              err |-> ErrorResponse_new("Invalid base58 encoding for " \o field_name)]
        ELSE IF ~PubkeyTryFrom(decoded.bytes)
        THEN [ok |-> FALSE,
              err |-> ErrorResponse_new("Invalid public key format for " \o field_name)]
        ELSE [ok |-> TRUE, key |-> decoded.bytes]

\* validate_decimals with the comparison off by one
validate_decimals_below_nine(decimals) ==
    IF decimals >= 9
    THEN [ok |-> FALSE, err |-> ErrorResponse_new("Decimals must be between 0 and 9")]
    ELSE [ok |-> TRUE]

validate_decimals(decimals) ==
    IF decimals > 9
    THEN [ok |-> FALSE, err |-> ErrorResponse_new("Decimals must be between 0 and 9")]
    ELSE [ok |-> TRUE]

validate_amount(amount) ==
    IF amount = U64_ZERO
    THEN [ok |-> FALSE, err |-> ErrorResponse_new("Amount must be greater than 0")]
    ELSE [ok |-> TRUE]

create_token(request) ==
    LET mint_authority == token_validate_pubkey(request.mint_authority, "mint_authority")
        mint == token_validate_pubkey(request.mint, "mint")
        decimals == validate_decimals(request.decimals)
    IN  IF ~mint_authority.ok THEN Err(mint_authority.err, <<>>)
        ELSE IF ~mint.ok THEN Err(mint.err, <<>>)
        ELSE IF ~decimals.ok THEN Err(decimals.err, <<>>)
        ELSE
          LET token_program_id == spl_token_id
              accounts == << AccountMeta_new(mint.key, TRUE),
                             AccountMeta_new_readonly(mint_authority.key, TRUE),
                             AccountMeta_new_readonly(rent_id, FALSE),
                             AccountMeta_new_readonly(system_program_id, FALSE) >>
              instruction == initialize_mint(token_program_id, mint.key,
                                             mint_authority.key, request.decimals)
          IN  IF ~instruction.ok
              THEN Err(ErrorResponse_new("Failed to create token instruction: "
                                         \o instruction.err), << instruction >>)
              ELSE Ok(SuccessResponse_new(
                        [program_id |-> PubkeyToString(token_program_id),
                         accounts |-> AccountInfos[accounts],
                         instruction_data |-> Base64Encode[instruction.ix.data]]),
                      << instruction >>)

\* let amount = 1_000_000_000 in mint_token
MINT_AMOUNT == U64FromNat(1000000000)

mint_token(request) ==
    LET mint_authority == token_validate_pubkey(request.mint_authority, "mintAuthority")
        mint == token_validate_pubkey(request.mint, "mint")
        decimals == validate_decimals(request.decimals)
    IN  IF ~mint_authority.ok THEN Err(mint_authority.err, <<>>)
        ELSE IF ~mint.ok THEN Err(mint.err, <<>>)
        ELSE IF ~decimals.ok THEN Err(decimals.err, <<>>)
        ELSE
          LET token_program_id == spl_token_id
              accounts == << AccountMeta_new(mint.key, TRUE),
                             AccountMeta_new_readonly(mint_authority.key, TRUE),
                             AccountMeta_new_readonly(system_program_id, FALSE) >>
              instruction == mint_to(token_program_id, mint.key, mint.key,
                                     mint_authority.key, MINT_AMOUNT)
          IN  IF ~instruction.ok
              THEN Err(ErrorResponse_new("Failed to create mint instruction: "
                                         \o instruction.err), << instruction >>)
              ELSE Ok(SuccessResponse_new(
                        [program_id |-> PubkeyToString(token_program_id),
                         accounts |-> AccountInfos[accounts],
                         instruction_data |-> Base64Encode[instruction.ix.data]]),
                      << instruction >>)

\* send_token comparing owner and destination ahead of the amount
send_token_same_address_first(request) ==
    IF request.destination = <<>> \/ request.mint = <<>> \/ request.owner = <<>>
    THEN Err(ErrorResponse_new("Missing required fields"), <<>>)
    ELSE
    LET destination == token_validate_pubkey(request.destination, "destination address")
        mint == token_validate_pubkey(request.mint, "mint address")
        owner == token_validate_pubkey(request.owner, "owner address")
        amount == validate_amount(request.amount)
    IN  IF ~destination.ok THEN Err(destination.err, <<>>)
        ELSE IF ~mint.ok THEN Err(mint.err, <<>>)
        ELSE IF ~owner.ok THEN Err(owner.err, <<>>)
        ELSE IF owner.key = destination.key
        THEN Err(ErrorResponse_new(
                   "Owner and destination addresses cannot be the same"), <<>>)
        ELSE IF ~amount.ok THEN Err(amount.err, <<>>)
        ELSE
          LET owner_ata == get_associated_token_address(owner.key, mint.key)
              destination_ata ==
                  get_associated_token_address(destination.key, mint.key)
              accounts == << AccountMeta_new(owner_ata, FALSE),
                             AccountMeta_new(destination_ata, FALSE),
                             AccountMeta_new_readonly(owner.key, TRUE),
                             AccountMeta_new_readonly(mint.key, FALSE),
                             AccountMeta_new_readonly(spl_token_id, FALSE) >>
              instruction == transfer_checked(spl_token_id, owner_ata, mint.key,
                                              destination_ata, owner.key,
                                              request.amount, 9)
          IN  Ok(SuccessResponse_new(
                   [program_id |-> PubkeyToString(spl_token_id),
                    accounts |-> AccountInfos[accounts],
                    instruction_data |-> Base64Encode[instruction.ix.data]]),
                 << instruction >>)

send_token(request) ==
    IF request.destination = <<>> \/ request.mint = <<>> \/ request.owner = <<>>
    THEN Err(ErrorResponse_new("Missing required fields"), <<>>)
    ELSE
    LET destination == token_validate_pubkey(request.destination, "destination address")
        mint == token_validate_pubkey(request.mint, "mint address")
        owner == token_validate_pubkey(request.owner, "owner address")
        amount == validate_amount(request.amount)
    IN  IF ~destination.ok THEN Err(destination.err, <<>>)
        ELSE IF ~mint.ok THEN Err(mint.err, <<>>)
        ELSE IF ~owner.ok THEN Err(owner.err, <<>>)
        ELSE IF ~amount.ok THEN Err(amount.err, <<>>)
        ELSE IF owner.key = destination.key
        THEN Err(ErrorResponse_new(
                   "Owner and destination addresses cannot be the same"), <<>>)
        ELSE
          LET token_program_id == spl_token_id
              owner_ata == get_associated_token_address(owner.key, mint.key)
              destination_ata ==
                  get_associated_token_address(destination.key, mint.key)
              accounts == << AccountMeta_new(owner_ata, FALSE),
                             AccountMeta_new(destination_ata, FALSE),
                             AccountMeta_new_readonly(owner.key, TRUE),
                             AccountMeta_new_readonly(mint.key, FALSE),
                             AccountMeta_new_readonly(token_program_id, FALSE) >>
              instruction == transfer_checked(token_program_id, owner_ata, mint.key,
                                              destination_ata, owner.key,
                                              request.amount, 9)
          IN  IF ~instruction.ok
              THEN Err(ErrorResponse_new("Failed to create transfer instruction: "
                                         \o instruction.err), << instruction >>)
              ELSE Ok(SuccessResponse_new(
                        [program_id |-> PubkeyToString(token_program_id),
                         accounts |-> AccountInfos[accounts],
                         instruction_data |-> Base64Encode[instruction.ix.data]]),
                      << instruction >>)

\* ---------------------------------------------------------- transfer.rs

transfer_validate_pubkey(key, field_name) ==
    LET decoded == Bs58Decode[key]
    IN  IF ~decoded.ok
        THEN [ok |-> FALSE,
              err |-> ErrorResponse_new("Invalid base58 encoding for " \o field_name)]
        ELSE IF ~PubkeyTryFrom(decoded.bytes)
        THEN [ok |-> FALSE,
              err |-> ErrorResponse_new("Invalid public key format for " \o field_name)]
        ELSE [ok |-> TRUE, key |-> decoded.bytes]

\* 500_000_000 * 1_000_000_000 before it is typed as u64
MAX_REASONABLE_WIDE ==
    WideMul[CarryDigits[500000000, 256], CarryDigits[1000000000, 256]]

\* const MAX_REASONABLE_LAMPORTS: u64
MAX_REASONABLE_LAMPORTS == ToU64(MAX_REASONABLE_WIDE)

\* validate_lamports with the bound itself refused
validate_lamports_exclusive(lamports) ==
    IF lamports = U64_ZERO
    THEN [ok |-> FALSE,
          err |-> ErrorResponse_new("Amount must be greater than 0 lamports")]
    ELSE IF U64Greater(lamports, MAX_REASONABLE_LAMPORTS)
            \/ lamports = MAX_REASONABLE_LAMPORTS
    THEN [ok |-> FALSE,
          err |-> ErrorResponse_new("Amount exceeds maximum reasonable transfer")]
    ELSE [ok |-> TRUE]

validate_lamports(lamports) ==
    IF lamports = U64_ZERO
    THEN [ok |-> FALSE,
          err |-> ErrorResponse_new("Amount must be greater than 0 lamports")]
    ELSE IF U64Greater(lamports, MAX_REASONABLE_LAMPORTS)
    THEN [ok |-> FALSE,
          err |-> ErrorResponse_new("Amount exceeds maximum reasonable transfer")]
    ELSE [ok |-> TRUE]

\* send_sol without the comparison of sender and recipient
send_sol_without_same_check(request) ==
    IF request.from = <<>> \/ request.to = <<>>
    THEN Err(ErrorResponse_new("Missing required fields"), <<>>)
    ELSE
    LET from_pubkey == transfer_validate_pubkey(request.from, "sender address")
        to_pubkey == transfer_validate_pubkey(request.to, "recipient address")
        lamports == validate_lamports(request.lamports)
    IN  IF ~from_pubkey.ok THEN Err(from_pubkey.err, <<>>)
        ELSE IF ~to_pubkey.ok THEN Err(to_pubkey.err, <<>>)
        ELSE IF ~lamports.ok THEN Err(lamports.err, <<>>)
        ELSE
          LET instruction == system_instruction_transfer(
                                 from_pubkey.key, to_pubkey.key, request.lamports)
              accounts == << AccountMeta_new(from_pubkey.key, TRUE),
                             AccountMeta_new(to_pubkey.key, FALSE) >>
          IN  Ok(SuccessResponse_new(
                   [program_id |-> PubkeyToString(system_program_id),
                    accounts |-> AccountInfos[accounts],
                    instruction_data |-> Base64Encode[instruction.data]]),
                 << [ok |-> TRUE, ix |-> instruction] >>)

send_sol(request) ==
    IF request.from = <<>> \/ request.to = <<>>
    THEN Err(ErrorResponse_new("Missing required fields"), <<>>)
    ELSE
    LET from_pubkey == transfer_validate_pubkey(request.from, "sender address")
        to_pubkey == transfer_validate_pubkey(request.to, "recipient address")
        lamports == validate_lamports(request.lamports)
    IN  IF ~from_pubkey.ok THEN Err(from_pubkey.err, <<>>)
        ELSE IF ~to_pubkey.ok THEN Err(to_pubkey.err, <<>>)
        ELSE IF ~lamports.ok THEN Err(lamports.err, <<>>)
        ELSE IF from_pubkey.key = to_pubkey.key
        THEN Err(ErrorResponse_new(
                   "Sender and recipient addresses cannot be the same"), <<>>)
        ELSE
          LET instruction == system_instruction_transfer(
                                 from_pubkey.key, to_pubkey.key, request.lamports)
              accounts == << AccountMeta_new(from_pubkey.key, TRUE),
                             AccountMeta_new(to_pubkey.key, FALSE) >>
          IN  Ok(SuccessResponse_new(
                   [program_id |-> PubkeyToString(system_program_id),
                    accounts |-> AccountInfos[accounts],
                    instruction_data |-> Base64Encode[instruction.data]]),
                 << [ok |-> TRUE, ix |-> instruction] >>)

\* ----------------------------------------------------------- message.rs

validate_secret_key(secret) ==
    LET decoded == Bs58Decode[secret]
    IN  IF ~decoded.ok
        THEN [ok |-> FALSE,
              err |-> ErrorResponse_new("Invalid base58 encoding for secret key")]
        ELSE LET parsed == Keypair_from_bytes[decoded.bytes]
             IN  IF ~parsed.ok
                 THEN [ok |-> FALSE,
                       err |-> ErrorResponse_new("Invalid secret key format")]
                 ELSE [ok |-> TRUE, keypair |-> parsed.keypair]

validate_message(message) ==
    IF message = <<>>
    THEN [ok |-> FALSE, err |-> ErrorResponse_new("Message cannot be empty")]
    ELSE [ok |-> TRUE]

validate_signature(signature) ==
    LET decoded == Base64Decode[signature]
    IN  IF ~decoded.ok
        THEN [ok |-> FALSE,
              err |-> ErrorResponse_new("Invalid base64 encoding for signature")]
        ELSE IF ~SignatureTryFrom(decoded.bytes)
        THEN [ok |-> FALSE, err |-> ErrorResponse_new("Invalid signature format")]
        ELSE [ok |-> TRUE, signature |-> decoded.bytes]

message_validate_pubkey(pubkey) ==
    LET decoded == Bs58Decode[pubkey]
    IN  IF ~decoded.ok
        THEN [ok |-> FALSE,
              err |-> ErrorResponse_new("Invalid base58 encoding for public key")]
        ELSE IF ~PubkeyTryFrom(decoded.bytes)
        THEN [ok |-> FALSE, err |-> ErrorResponse_new("Invalid public key format")]
        ELSE [ok |-> TRUE, key |-> decoded.bytes]

sign_message(request) ==
    IF request.message = <<>> \/ request.secret = <<>>
    THEN Err(ErrorResponse_new("Missing required fields"), <<>>)
    ELSE
    LET message == validate_message(request.message)
        keypair == validate_secret_key(request.secret)
    IN  IF ~message.ok THEN Err(message.err, <<>>)
        ELSE IF ~keypair.ok THEN Err(keypair.err, <<>>)
        ELSE
          LET message_bytes == request.message
              signature == Keypair_sign_message[keypair.keypair, message_bytes]
          IN  Ok(SuccessResponse_new(
                   [signature |-> Base64Encode[signature],
                    public_key |-> Bs58Encode[keypair.keypair.public],
                    message |-> request.message]), <<>>)

\* verify_message answering a signature that does not verify with an error
verify_message_rejecting_invalid(request) ==
    IF request.message = <<>> \/ request.signature = <<>> \/ request.pubkey = <<>>
    THEN Err(ErrorResponse_new("Missing required fields"), <<>>)
    ELSE
    LET message == validate_message(request.message)
        signature == validate_signature(request.signature)
        pubkey == message_validate_pubkey(request.pubkey)
    IN  IF ~message.ok THEN Err(message.err, <<>>)
        ELSE IF ~signature.ok THEN Err(signature.err, <<>>)
        ELSE IF ~pubkey.ok THEN Err(pubkey.err, <<>>)
        ELSE IF ~Signature_verify[signature.signature, pubkey.key, request.message]
        THEN Err(ErrorResponse_new("Invalid signature format"), <<>>)
        ELSE Ok(SuccessResponse_new(
                  [valid |-> TRUE,
                   message |-> request.message,
                   pubkey |-> request.pubkey]), <<>>)

verify_message(request) ==
    IF request.message = <<>> \/ request.signature = <<>> \/ request.pubkey = <<>>
    THEN Err(ErrorResponse_new("Missing required fields"), <<>>)
    ELSE
    LET message == validate_message(request.message)
        signature == validate_signature(request.signature)
        pubkey == message_validate_pubkey(request.pubkey)
    IN  IF ~message.ok THEN Err(message.err, <<>>)
        ELSE IF ~signature.ok THEN Err(signature.err, <<>>)
        ELSE IF ~pubkey.ok THEN Err(pubkey.err, <<>>)
        ELSE
          LET message_bytes == request.message
              valid == Signature_verify[signature.signature, pubkey.key, message_bytes]
          IN  Ok(SuccessResponse_new(
                   [valid |-> valid,
                    message |-> request.message,
                    pubkey |-> request.pubkey]), <<>>)

\* -------------------------------------------------------------- main.rs
\* A request body is either no JSON at all or a JSON object, given as the
\* function from its keys to their values.  A key is written as the field it
\* deserializes into (mint_authority for "mintAuthority"), and a JSON number
\* the way the field's type holds it.

JsonBody(value) == [json |-> TRUE, value |-> value]

NOT_JSON == [json |-> FALSE]

String == Seq(Nat)

U8 == 0..255

U64 == [1..U64_BYTES -> 0..255]

\* struct CreateTokenRequest and struct MintTokenRequest
CreateTokenRequest == [mint_authority : String, mint : String, decimals : U8]

MintTokenRequest == [mint_authority : String, mint : String, decimals : U8]

SendTokenRequest == [destination : String, mint : String, owner : String, amount : U64]

SendSolRequest == [from : String, to : String, lamports : U64]

SignMessageRequest == [message : String, secret : String]

VerifyMessageRequest == [message : String, signature : String, pubkey : String]

\* the Json<T> extractor of a handler's argument: the body deserialized into
\* the request type, keys the type does not name being ignored, or a rejection
Json_extract(body, fields, type) ==
    IF ~body.json
    THEN [ok |-> FALSE, status |-> 400,
          text |-> "Failed to parse the request body as JSON"]
    ELSE IF ~(fields \subseteq DOMAIN body.value)
    THEN [ok |-> FALSE, status |-> 422,
          text |-> "Failed to deserialize the JSON body into the target type"]
    ELSE IF [f \in fields |-> body.value[f]] \notin type
    THEN [ok |-> FALSE, status |-> 422,
          text |-> "Failed to deserialize the JSON body into the target type"]
    ELSE [ok |-> TRUE, request |-> [f \in fields |-> body.value[f]]]

\* Json(value) as a response
JsonResponse(value) ==
    [status |-> 200, content_type |-> "application/json", body |-> value]

\* a rejection of the extractor as a response: the handler's body never runs
RejectionResponse(rejection) ==
    [status |-> rejection.status, content_type |-> "text/plain; charset=utf-8",
     body |-> rejection.text]

Nothing == [nothing |-> TRUE]

Rejected(rejection) ==
    [request |-> Nothing, response |-> RejectionResponse(rejection), built |-> <<>>]

\* match result { Ok(response) => Json(to_value(response)),
\*                Err(err) => Json(to_value(err)) }
ToJson(result) == IF result.ok THEN result.value ELSE result.value

Handled(request, result) ==
    [request |-> request, response |-> JsonResponse(ToJson(result)),
     built |-> result.built]

handle_generate_keypair(secret) == Handled(Nothing, generate_keypair(secret))

handle_create_token(body) ==
    LET extracted == Json_extract(body, {"mint_authority", "mint", "decimals"},
                                  CreateTokenRequest)
    IN  IF ~extracted.ok THEN Rejected(extracted)
        ELSE Handled(extracted.request, create_token(extracted.request))

handle_mint_token(body) ==
    LET extracted == Json_extract(body, {"mint_authority", "mint", "decimals"},
                                  MintTokenRequest)
    IN  IF ~extracted.ok THEN Rejected(extracted)
        ELSE Handled(extracted.request, mint_token(extracted.request))

handle_sign_message(body) ==
    LET extracted == Json_extract(body, {"message", "secret"}, SignMessageRequest)
    IN  IF ~extracted.ok THEN Rejected(extracted)
        ELSE Handled(extracted.request, sign_message(extracted.request))

handle_verify_message(body) ==
    LET extracted == Json_extract(body, {"message", "signature", "pubkey"},
                                  VerifyMessageRequest)
    IN  IF ~extracted.ok THEN Rejected(extracted)
        ELSE Handled(extracted.request, verify_message(extracted.request))

handle_send_sol(body) ==
    LET extracted == Json_extract(body, {"from", "to", "lamports"}, SendSolRequest)
    IN  IF ~extracted.ok THEN Rejected(extracted)
        ELSE Handled(extracted.request, send_sol(extracted.request))

handle_send_token(body) ==
    LET extracted == Json_extract(body, {"destination", "mint", "owner", "amount"},
                                  SendTokenRequest)
    IN  IF ~extracted.ok THEN Rejected(extracted)
        ELSE Handled(extracted.request, send_token(extracted.request))

\* the POST routes of the Router
Route(path, body) ==
    CASE path = "/token/create" -> handle_create_token(body)
      [] path = "/token/mint" -> handle_mint_token(body)
      [] path = "/message/sign" -> handle_sign_message(body)
      [] path = "/message/verify" -> handle_verify_message(body)
      [] path = "/send/sol" -> handle_send_sol(body)
      [] path = "/send/token" -> handle_send_token(body)

\* ------------------------------------------------------- state machine
\* In Spec and SpecSession one request is in hand at a time: a handler runs on
\* a request body and leaves its response, and the client then takes the
\* response.  In Spec every endpoint serves bodies drawn from fixed sets
\* (Reply).  In SpecSession the client keeps the last keypair it was given
\* (wallet) and the last signature it obtained with that keypair's secret
\* (signed), and sends them back (Deliver).  In SpecConcurrent several
\* connections are open at once (inflight), each with a request of its own
\* that is received, handled and answered in steps that interleave.

VARIABLES endpoint, body, request, response, built, wallet, signed, inflight

vars == << endpoint, body, request, response, built, wallet, signed, inflight >>

\* number of secret keys Keypair::new() draws from
NumSeeds == 2

\* number of distinct one-byte messages
NumMessages == 2

\* number of connections open at once
NumConnections == 2

Connections == 1..NumConnections

Seeds == { << s >> \o Zeros(PUBKEY_BYTES - 1) : s \in 1..NumSeeds }

OneByteMessages == { << 64 + m >> : m \in 1..NumMessages }

Messages == { <<>>, << 104, 105 >> } \cup OneByteMessages

\* "20": a character outside the base58 alphabet
TEXT_BAD58 == << 1, BS58_INVALID >>

\* "2z": base58 of a one-byte string
TEXT_SHORT58 == << 1, 57 >>

SYSTEM_PROGRAM_TEXT == Zeros(PUBKEY_BYTES)

\* a keypair the client holds from before
KNOWN_KEYPAIR ==
    [secret |-> << 200 >> \o Zeros(PUBKEY_BYTES - 1),
     public |-> PublicOf(<< 200 >> \o Zeros(PUBKEY_BYTES - 1))]

KNOWN_PUBKEY_TEXT == Bs58Encode[KNOWN_KEYPAIR.public]

KNOWN_SECRET_TEXT == Bs58Encode[Keypair_to_bytes(KNOWN_KEYPAIR)]

\* its signature of the message "A"
KNOWN_SIGNATURE_TEXT == Base64Encode[Keypair_sign_message[KNOWN_KEYPAIR, << 65 >>]]

MalformedKeys == { <<>>, TEXT_BAD58, TEXT_SHORT58 }

WellFormedKeys == { SYSTEM_PROGRAM_TEXT, TOKEN_PROGRAM_TEXT, KNOWN_PUBKEY_TEXT }

StaticKeyTexts == MalformedKeys \cup WellFormedKeys

KeyTexts == StaticKeyTexts \cup (IF wallet = Nothing THEN {} ELSE { wallet.pubkey })

Decimals == { 0, 9, 10, 255 }

Amounts ==
    { U64_ZERO, U64FromNat(1), MAX_REASONABLE_LAMPORTS,
      U64Succ(MAX_REASONABLE_LAMPORTS), U64_MAX }

\* the JSON number 2^64
TWO_TO_64 == Zeros(U64_BYTES) \o << 1 >>

\* base58 of 64 bytes whose public half is no valid public key
TEXT_BAD_KEYPAIR == Bs58Encode[Encode32(1) \o [i \in 1..PUBKEY_BYTES |-> 255]]

StaticSecretTexts ==
    { <<>>, TEXT_BAD58, TEXT_SHORT58, SYSTEM_PROGRAM_TEXT, TEXT_BAD_KEYPAIR,
      KNOWN_SECRET_TEXT }

SecretTexts ==
    StaticSecretTexts \cup (IF wallet = Nothing THEN {} ELSE { wallet.secret })

StaticSignatureTexts ==
    { <<>>, << 0, B64_INVALID, 0, 0 >>, << 0, 0, 0 >>,
      Base64Encode[<< 1, 2, 3 >>], Base64Encode[Zeros(SIGNATURE_BYTES)],
      KNOWN_SIGNATURE_TEXT }

SignatureTexts ==
    StaticSignatureTexts \cup (IF signed = Nothing THEN {} ELSE { signed.signature })

\* bodies no request type is deserialized from
MalformedBodies == { NOT_JSON, JsonBody(<<>>) }

CreateTokenBodies ==
    { JsonBody(r) : r \in [mint_authority : StaticKeyTexts, mint : StaticKeyTexts,
                           decimals : Decimals] }
    \cup MalformedBodies
    \cup { JsonBody([mint_authority |-> KNOWN_PUBKEY_TEXT,
                     mint |-> TOKEN_PROGRAM_TEXT, decimals |-> 256]) }

SendTokenBodies ==
    { JsonBody(r) : r \in [destination : StaticKeyTexts, mint : StaticKeyTexts,
                           owner : StaticKeyTexts, amount : Amounts] }
    \cup MalformedBodies
    \cup { JsonBody([destination |-> KNOWN_PUBKEY_TEXT, mint |-> TOKEN_PROGRAM_TEXT,
                     owner |-> SYSTEM_PROGRAM_TEXT, amount |-> TWO_TO_64]) }

SendSolBodies ==
    { JsonBody(r) : r \in [from : StaticKeyTexts, to : StaticKeyTexts,
                           lamports : Amounts] }
    \cup MalformedBodies
    \cup { JsonBody([from |-> KNOWN_PUBKEY_TEXT, to |-> SYSTEM_PROGRAM_TEXT,
                     lamports |-> TWO_TO_64]),
           JsonBody([from |-> KNOWN_PUBKEY_TEXT, to |-> SYSTEM_PROGRAM_TEXT,
                     lamports |-> U64FromNat(1), memo |-> << 104, 105 >>]),
           JsonBody([from |-> KNOWN_PUBKEY_TEXT, lamports |-> U64FromNat(1)]) }

SignMessageBodies ==
    { JsonBody(r) : r \in [message : Messages, secret : SecretTexts] }
    \cup MalformedBodies

VerifyMessageBodies ==
    { JsonBody(r) : r \in [message : Messages, signature : SignatureTexts,
                           pubkey : KeyTexts] }
    \cup MalformedBodies

\* the requests the open connections carry
ConcurrentRequests ==
    { [path |-> "/send/sol", body |-> b] :
        b \in { JsonBody([from |-> KNOWN_PUBKEY_TEXT, to |-> t,
                          lamports |-> U64FromNat(1)]) :
                  t \in { KNOWN_PUBKEY_TEXT, SYSTEM_PROGRAM_TEXT } } }
    \cup { [path |-> "/send/token", body |-> b] :
        b \in { JsonBody([destination |-> KNOWN_PUBKEY_TEXT,
                          mint |-> TOKEN_PROGRAM_TEXT,
                          owner |-> SYSTEM_PROGRAM_TEXT, amount |-> a]) :
                  a \in { U64_ZERO, U64_MAX } } }
    \cup { [path |-> p, body |-> b] :
        p \in { "/token/create", "/token/mint" },
        b \in { JsonBody([mint_authority |-> KNOWN_PUBKEY_TEXT,
                          mint |-> TOKEN_PROGRAM_TEXT, decimals |-> d]) :
                  d \in { 9, 10 } } }
    \cup { [path |-> "/message/sign", body |-> b] :
        b \in { JsonBody([message |-> m, secret |-> KNOWN_SECRET_TEXT]) :
                  m \in OneByteMessages } }
    \cup { [path |-> "/message/verify", body |-> b] :
        b \in { JsonBody([message |-> m, signature |-> KNOWN_SIGNATURE_TEXT,
                          pubkey |-> KNOWN_PUBKEY_TEXT]) :
                  m \in OneByteMessages } \cup { NOT_JSON } }

Closed == [stage |-> "closed"]

Init ==
    /\ endpoint = "idle"
    /\ body = Nothing
    /\ request = Nothing
    /\ response = Nothing
    /\ built = <<>>
    /\ wallet = Nothing
    /\ signed = Nothing
    /\ inflight = [c \in Connections |-> Closed]

GenerateKeypair ==
    /\ endpoint = "idle"
    /\ \E secret \in Seeds :
         \E handled \in { handle_generate_keypair(secret) } :
             /\ body' = Nothing
             /\ request' = handled.request
             /\ response' = handled.response
             /\ built' = handled.built
    /\ endpoint' = "keypair"
    /\ UNCHANGED << wallet, signed, inflight >>

CreateToken ==
    /\ endpoint = "idle"
    /\ \E b \in CreateTokenBodies :
         \E handled \in { handle_create_token(b) } :
             /\ body' = b
             /\ request' = handled.request
             /\ response' = handled.response
             /\ built' = handled.built
    /\ endpoint' = "create_token"
    /\ UNCHANGED << wallet, signed, inflight >>

MintToken ==
    /\ endpoint = "idle"
    /\ \E b \in CreateTokenBodies :
         \E handled \in { handle_mint_token(b) } :
             /\ body' = b
             /\ request' = handled.request
             /\ response' = handled.response
             /\ built' = handled.built
    /\ endpoint' = "mint_token"
    /\ UNCHANGED << wallet, signed, inflight >>

SignMessage ==
    /\ endpoint = "idle"
    /\ \E b \in SignMessageBodies :
         \E handled \in { handle_sign_message(b) } :
             /\ body' = b
             /\ request' = handled.request
             /\ response' = handled.response
             /\ built' = handled.built
    /\ endpoint' = "sign_message"
    /\ UNCHANGED << wallet, signed, inflight >>

VerifyMessage ==
    /\ endpoint = "idle"
    /\ \E b \in VerifyMessageBodies :
         \E handled \in { handle_verify_message(b) } :
             /\ body' = b
             /\ request' = handled.request
             /\ response' = handled.response
             /\ built' = handled.built
    /\ endpoint' = "verify_message"
    /\ UNCHANGED << wallet, signed, inflight >>

SendSol ==
    /\ endpoint = "idle"
    /\ \E b \in SendSolBodies :
         \E handled \in { handle_send_sol(b) } :
             /\ body' = b
             /\ request' = handled.request
             /\ response' = handled.response
             /\ built' = handled.built
    /\ endpoint' = "send_sol"
    /\ UNCHANGED << wallet, signed, inflight >>

SendToken ==
    /\ endpoint = "idle"
    /\ \E b \in SendTokenBodies :
         \E handled \in { handle_send_token(b) } :
             /\ body' = b
             /\ request' = handled.request
             /\ response' = handled.response
             /\ built' = handled.built
    /\ endpoint' = "send_token"
    /\ UNCHANGED << wallet, signed, inflight >>

\* the client takes the response
Reply ==
    /\ endpoint # "idle"
    /\ endpoint' = "idle"
    /\ body' = Nothing
    /\ request' = Nothing
    /\ response' = Nothing
    /\ built' = <<>>
    /\ UNCHANGED << wallet, signed, inflight >>

\* the client takes the response and keeps what it may send back later
Deliver ==
    /\ endpoint # "idle"
    /\ endpoint' = "idle"
    /\ body' = Nothing
    /\ request' = Nothing
    /\ response' = Nothing
    /\ built' = <<>>
    /\ wallet' = IF endpoint = "keypair" THEN response.body.data ELSE wallet
    /\ signed' = IF endpoint = "keypair" THEN Nothing
                 ELSE IF /\ endpoint = "sign_message"
                         /\ request # Nothing
                         /\ response.body.success
                         /\ wallet # Nothing
                         /\ request.secret = wallet.secret
                 THEN response.body.data
                 ELSE signed
    /\ UNCHANGED inflight

Next ==
    \/ GenerateKeypair
    \/ CreateToken
    \/ MintToken
    \/ SignMessage
    \/ VerifyMessage
    \/ SendSol
    \/ SendToken
    \/ Reply

Spec == Init /\ [][Next]_vars

NextSession ==
    \/ GenerateKeypair
    \/ SignMessage
    \/ VerifyMessage
    \/ Deliver

SpecSession == Init /\ [][NextSession]_vars

\* a request arrives on a connection
Receive ==
    \E c \in Connections :
        /\ inflight[c].stage = "closed"
        /\ \E r \in ConcurrentRequests :
             inflight' = [inflight EXCEPT ![c] =
                             [stage |-> "received", path |-> r.path,
                              body |-> r.body, response |-> Nothing]]
        /\ UNCHANGED << endpoint, body, request, response, built, wallet, signed >>

\* the router reading the body from a buffer the connections share
Serve_shared(c) ==
    Route(inflight[c].path,
          inflight[CHOOSE d \in Connections : inflight[d].stage # "closed"].body)

\* axum::serve: the request of a connection is handed to the router
Serve(c) == Route(inflight[c].path, inflight[c].body)

\* the handler of a connection's request runs
Handle ==
    \E c \in Connections :
        /\ inflight[c].stage = "received"
        /\ \E handled \in { Serve(c) } :
             inflight' = [inflight EXCEPT ![c].stage = "answered",
                                          ![c].response = handled.response]
        /\ UNCHANGED << endpoint, body, request, response, built, wallet, signed >>

\* the response leaves on its connection
Send ==
    \E c \in Connections :
        /\ inflight[c].stage = "answered"
        /\ inflight' = [inflight EXCEPT ![c] = Closed]
        /\ UNCHANGED << endpoint, body, request, response, built, wallet, signed >>

NextConcurrent ==
    \/ Receive
    \/ Handle
    \/ Send

SpecConcurrent == Init /\ [][NextConcurrent]_vars

\* ------------------------------------------------------------ properties
\* The properties are stated on the request in hand and its response, in terms
\* of the SDK's primitives rather than of the validators of the handlers.

IsSuccessEnvelope(r) ==
    /\ r.content_type = "application/json"
    /\ DOMAIN r.body = { "success", "data" }
    /\ r.body.success = TRUE

IsErrorEnvelope(r) ==
    /\ r.content_type = "application/json"
    /\ DOMAIN r.body = { "success", "error" }
    /\ r.body.success = FALSE

\* the handler's body ran on a deserialized request
Typed(name) == endpoint = name /\ request # Nothing

\* text is base58 of a 32-byte key
DecodesToKey(text) ==
    Bs58Decode[text].ok /\ Len(Bs58Decode[text].bytes) = PUBKEY_BYTES

SameKey(a, b) ==
    DecodesToKey(a) /\ DecodesToKey(b) /\ Bs58Decode[a].bytes = Bs58Decode[b].bytes

\* C1: for every endpoint and every request it receives, the response body is
\* one of the two envelopes: success = true with data and no error, or
\* success = false with an error and no data.
C1_EveryResponseIsAnEnvelope ==
    endpoint # "idle" => IsSuccessEnvelope(response) \/ IsErrorEnvelope(response)

\* C2: send_sol never succeeds when from and to decode to the same public key,
\* and send_token never succeeds when owner and destination do, whatever the
\* other fields are.
C2_SelfTransfersRejected ==
    /\ (Typed("send_sol") /\ SameKey(request.from, request.to))
          => ~IsSuccessEnvelope(response)
    /\ (Typed("send_token") /\ SameKey(request.owner, request.destination))
          => ~IsSuccessEnvelope(response)

C2_SelfTransferSeen ==
    /\ Typed("send_sol")
    /\ request.from = KNOWN_PUBKEY_TEXT
    /\ request.to = KNOWN_PUBKEY_TEXT
    /\ request.lamports = U64FromNat(1)
    /\ IsErrorEnvelope(response)
    /\ response.body.error = "Sender and recipient addresses cannot be the same"

\* the secret is base58 of a keypair byte string
DecodesToKeypair(text) ==
    Bs58Decode[text].ok /\ Keypair_from_bytes[Bs58Decode[text].bytes].ok

\* the signature is base64 of 64 bytes
DecodesToSignature(text) ==
    Base64Decode[text].ok /\ Len(Base64Decode[text].bytes) = SIGNATURE_BYTES

\* C3: a public-key field that is not base58 of a 32-byte key (create_token,
\* mint_token, send_token, send_sol, verify_message), a secret that is not
\* base58 of a keypair byte string (sign_message) and a signature that is not
\* base64 of a 64-byte signature (verify_message) each yield an error envelope.
C3_MalformedInputsRejected ==
    /\ (Typed("create_token")
          /\ ~(DecodesToKey(request.mint_authority) /\ DecodesToKey(request.mint)))
          => IsErrorEnvelope(response)
    /\ (Typed("mint_token")
          /\ ~(DecodesToKey(request.mint_authority) /\ DecodesToKey(request.mint)))
          => IsErrorEnvelope(response)
    /\ (Typed("send_token")
          /\ ~(/\ DecodesToKey(request.destination)
               /\ DecodesToKey(request.mint)
               /\ DecodesToKey(request.owner)))
          => IsErrorEnvelope(response)
    /\ (Typed("send_sol")
          /\ ~(DecodesToKey(request.from) /\ DecodesToKey(request.to)))
          => IsErrorEnvelope(response)
    /\ (Typed("verify_message")
          /\ ~(DecodesToKey(request.pubkey) /\ DecodesToSignature(request.signature)))
          => IsErrorEnvelope(response)
    /\ (Typed("sign_message") /\ ~DecodesToKeypair(request.secret))
          => IsErrorEnvelope(response)

C3_ShortKeySeen ==
    /\ Typed("send_token")
    /\ request.destination = KNOWN_PUBKEY_TEXT
    /\ request.mint = TEXT_SHORT58
    /\ request.amount = U64FromNat(1)
    /\ response.body.error = "Invalid public key format for mint address"

\* C4: create_token and mint_token with well-formed mintAuthority and mint
\* answer with an error envelope exactly when decimals > 9, and accept every
\* decimals value in 0..9.
C4_DecimalsRange ==
    \A name \in { "create_token", "mint_token" } :
        (/\ Typed(name)
         /\ DecodesToKey(request.mint_authority)
         /\ DecodesToKey(request.mint))
          => /\ IsErrorEnvelope(response) <=> (request.decimals > 9)
             /\ IsSuccessEnvelope(response) <=> (request.decimals <= 9)

C4_NineDecimalsSeen ==
    /\ Typed("create_token")
    /\ DecodesToKey(request.mint_authority)
    /\ DecodesToKey(request.mint)
    /\ request.decimals = 9
    /\ IsSuccessEnvelope(response)

\* 1 <= lamports <= 500,000,000 * 1,000,000,000
LamportsInRange(lamports) ==
    /\ lamports # U64_ZERO
    /\ ~U64Greater(lamports, ToU64(MAX_REASONABLE_WIDE))

DistinctKeys(a, b) == DecodesToKey(a) /\ DecodesToKey(b) /\ ~SameKey(a, b)

SendSolInRange ==
    /\ FitsU64(MAX_REASONABLE_WIDE)
    /\ (Typed("send_sol") /\ DistinctKeys(request.from, request.to))
          => (IsSuccessEnvelope(response) <=> LamportsInRange(request.lamports))

SendTokenKeysFine ==
    /\ Typed("send_token")
    /\ DecodesToKey(request.mint)
    /\ DistinctKeys(request.owner, request.destination)

\* the body in hand carries an amount that is no u64
AmountBeyondU64 ==
    /\ body # Nothing
    /\ body.json
    /\ "amount" \in DOMAIN body.value
    /\ body.value.amount \notin U64

\* C5: send_sol with well-formed distinct addresses succeeds exactly when
\* 1 <= lamports <= 500,000,000 * 1,000,000,000, a bound that fits in u64;
\* send_token with well-formed distinct addresses rejects amount 0 and accepts
\* every other u64 amount, u64::MAX included: only an amount that is no u64
\* is refused, when the body is deserialized.
C5_AmountRanges ==
    /\ SendSolInRange
    /\ SendTokenKeysFine
          => (IsSuccessEnvelope(response) <=> (request.amount # U64_ZERO))
    /\ (endpoint = "send_token" /\ AmountBeyondU64) => ~IsSuccessEnvelope(response)

C5_MaxAmountSent ==
    /\ SendTokenKeysFine
    /\ request.amount = U64_MAX
    /\ IsSuccessEnvelope(response)

\* C5 as first stated: send_token also rejects the amounts above an upper
\* bound, so the largest amount at least.
C5_TokenAmountBounded ==
    /\ SendSolInRange
    /\ SendTokenKeysFine
          => /\ (request.amount = U64_ZERO) => ~IsSuccessEnvelope(response)
             /\ (request.amount = U64_MAX) => ~IsSuccessEnvelope(response)

\* the same status, content type and body
SameResponse(a, b) ==
    /\ a.status = b.status
    /\ a.content_type = b.content_type
    /\ a.body = b.body

ValidationMessages ==
    { "Missing required fields",
      "Message cannot be empty",
      "Invalid base58 encoding for secret key",
      "Invalid secret key format",
      "Invalid base64 encoding for signature",
      "Invalid signature format",
      "Invalid base58 encoding for public key",
      "Invalid public key format",
      "Decimals must be between 0 and 9",
      "Amount must be greater than 0",
      "Amount must be greater than 0 lamports",
      "Amount exceeds maximum reasonable transfer",
      "Sender and recipient addresses cannot be the same",
      "Owner and destination addresses cannot be the same" }
    \cup { "Invalid base58 encoding for " \o field :
             field \in { "mint_authority", "mintAuthority", "mint",
                         "destination address", "mint address", "owner address",
                         "sender address", "recipient address" } }
    \cup { "Invalid public key format for " \o field :
             field \in { "mint_authority", "mintAuthority", "mint",
                         "destination address", "mint address", "owner address",
                         "sender address", "recipient address" } }

\* every field of the request in hand is well formed and in range
PassesValidation ==
    CASE endpoint = "keypair" -> TRUE
      [] endpoint \in { "create_token", "mint_token" } ->
            /\ DecodesToKey(request.mint_authority)
            /\ DecodesToKey(request.mint)
            /\ request.decimals <= 9
      [] endpoint = "send_token" ->
            /\ DecodesToKey(request.destination)
            /\ DecodesToKey(request.mint)
            /\ DecodesToKey(request.owner)
            /\ request.amount # U64_ZERO
            /\ ~SameKey(request.owner, request.destination)
      [] endpoint = "send_sol" ->
            /\ DistinctKeys(request.from, request.to)
            /\ LamportsInRange(request.lamports)
      [] endpoint = "sign_message" ->
            request.message # <<>> /\ DecodesToKeypair(request.secret)
      [] endpoint = "verify_message" ->
            /\ request.message # <<>>
            /\ DecodesToSignature(request.signature)
            /\ DecodesToKey(request.pubkey)

\* C7: every error envelope carries the message of a validation check that a
\* field of the request fails, and a request whose fields all pass validation
\* is answered with a success envelope.
C7_ErrorsAreValidationFailures ==
    (endpoint = "keypair" \/ (endpoint # "idle" /\ request # Nothing))
      => /\ IsSuccessEnvelope(response) <=> PassesValidation
         /\ IsErrorEnvelope(response) <=> ~PassesValidation
         /\ IsErrorEnvelope(response) => response.body.error \in ValidationMessages

C7_ValidMintSeen ==
    /\ Typed("mint_token")
    /\ PassesValidation
    /\ IsSuccessEnvelope(response)
    /\ Len(built) = 1
    /\ built[1].ok

InstructionEndpoints == { "create_token", "mint_token", "send_token", "send_sol" }

\* C8: on success, the program_id, the ordered accounts with their flags and
\* the instruction_data of create_token, mint_token, send_token and send_sol
\* are those of the instruction the SDK built for the request.
C8_ResponseIsTheSdkInstruction ==
    (endpoint \in InstructionEndpoints /\ request # Nothing
       /\ IsSuccessEnvelope(response))
      => /\ Len(built) = 1
         /\ built[1].ok
         /\ response.body.data.program_id = Bs58Encode[built[1].ix.program_id]
         /\ response.body.data.accounts = AccountInfos[built[1].ix.accounts]
         /\ response.body.data.instruction_data = Base64Encode[built[1].ix.data]

\* C9: sign_message with the secret of a keypair generate_keypair returned and
\* a non-empty message succeeds, gives that keypair's pubkey as public_key and
\* echoes the message; verify_message with that message, the signature
\* returned and that pubkey succeeds with valid = true.
C9_SignVerifyRoundTrip ==
    /\ (/\ Typed("sign_message")
        /\ wallet # Nothing
        /\ request.secret = wallet.secret
        /\ request.message # <<>>)
          => /\ IsSuccessEnvelope(response)
             /\ response.body.data.public_key = wallet.pubkey
             /\ response.body.data.message = request.message
    /\ (/\ Typed("verify_message")
        /\ wallet # Nothing
        /\ signed # Nothing
        /\ request.message = signed.message
        /\ request.signature = signed.signature
        /\ request.pubkey = wallet.pubkey)
          => /\ IsSuccessEnvelope(response)
             /\ response.body.data.valid = TRUE

C9_RoundTripSeen ==
    /\ Typed("verify_message")
    /\ wallet # Nothing
    /\ signed # Nothing
    /\ signed.public_key = wallet.pubkey
    /\ request.message = signed.message
    /\ request.signature = signed.signature
    /\ request.pubkey = wallet.pubkey
    /\ response.body.data.valid = TRUE

\* the message of the key check a text fails, "" if it fails none
KeyFailure(text, field) ==
    IF ~Bs58Decode[text].ok THEN "Invalid base58 encoding for " \o field
    ELSE IF Len(Bs58Decode[text].bytes) # PUBKEY_BYTES
    THEN "Invalid public key format for " \o field
    ELSE ""

\* the first message of a list of check results that is not ""
FirstFailure(checks) ==
    IF \A i \in 1..Len(checks) : checks[i] = "" THEN ""
    ELSE checks[CHOOSE i \in 1..Len(checks) :
                    checks[i] # "" /\ \A j \in 1..(i - 1) : checks[j] = ""]

SendSolChecks ==
    << IF request.from = <<>> \/ request.to = <<>>
       THEN "Missing required fields" ELSE "",
       KeyFailure(request.from, "sender address"),
       KeyFailure(request.to, "recipient address"),
       IF request.lamports = U64_ZERO THEN "Amount must be greater than 0 lamports"
       ELSE IF ~LamportsInRange(request.lamports)
       THEN "Amount exceeds maximum reasonable transfer" ELSE "",
       IF SameKey(request.from, request.to)
       THEN "Sender and recipient addresses cannot be the same" ELSE "" >>

SendTokenChecks ==
    << IF request.destination = <<>> \/ request.mint = <<>> \/ request.owner = <<>>
       THEN "Missing required fields" ELSE "",
       KeyFailure(request.destination, "destination address"),
       KeyFailure(request.mint, "mint address"),
       KeyFailure(request.owner, "owner address"),
       IF request.amount = U64_ZERO THEN "Amount must be greater than 0" ELSE "",
       IF SameKey(request.owner, request.destination)
       THEN "Owner and destination addresses cannot be the same" ELSE "" >>

AnsweredByFirstFailure(checks) ==
    IF FirstFailure(checks) = ""
    THEN IsSuccessEnvelope(response) /\ Len(built) = 1
    ELSE /\ IsErrorEnvelope(response)
         /\ response.body.error = FirstFailure(checks)
         /\ built = <<>>

\* C10: send_sol checks empty fields, from, to, lamports, then the same
\* address, and send_token checks empty fields, destination, mint, owner,
\* amount, then the same address; the error is that of the first check that
\* fails, and no SDK instruction is built for a request that fails a check.
C10_FirstFailingCheck ==
    /\ Typed("send_sol") => AnsweredByFirstFailure(SendSolChecks)
    /\ Typed("send_token") => AnsweredByFirstFailure(SendTokenChecks)

C10_SelfTransferOfZeroSeen ==
    /\ Typed("send_token")
    /\ DecodesToKey(request.mint)
    /\ SameKey(request.owner, request.destination)
    /\ request.amount = U64_ZERO
    /\ response.body.error = "Amount must be greater than 0"
    /\ built = <<>>

\* the verify_message request in hand has a non-empty message, a signature
\* that is base64 of 64 bytes and a pubkey that is base58 of a 32-byte key
VerifyFieldsFine ==
    /\ Typed("verify_message")
    /\ request.message # <<>>
    /\ DecodesToSignature(request.signature)
    /\ DecodesToKey(request.pubkey)

\* the signature of the request in hand verifies for its message and key
SignatureMatches ==
    Signature_verify[Base64Decode[request.signature].bytes,
                     Bs58Decode[request.pubkey].bytes, request.message]

\* C11: verify_message with a non-empty message, a well-formed 64-byte
\* signature and a well-formed public key answers with a success envelope
\* that echoes message and pubkey, with valid = false whenever the signature
\* does not match; an error envelope is given only when a field is empty or
\* malformed.
C11_FailedVerificationIsSuccess ==
    /\ VerifyFieldsFine
          => /\ IsSuccessEnvelope(response)
             /\ response.body.data.message = request.message
             /\ response.body.data.pubkey = request.pubkey
             /\ response.body.data.valid = SignatureMatches
    /\ (Typed("verify_message") /\ IsErrorEnvelope(response)) => ~VerifyFieldsFine

C11_MismatchSeen ==
    /\ VerifyFieldsFine
    /\ request.signature = KNOWN_SIGNATURE_TEXT
    /\ request.pubkey = KNOWN_PUBKEY_TEXT
    /\ request.message # << 65 >>
    /\ ~SignatureMatches
    /\ IsSuccessEnvelope(response)
    /\ response.body.data.valid = FALSE

====
